---- MODULE Spec2Model ----
(***************************************************************************)
(* A model of the PCI configuration-space driver of rust-driverkit         *)
(* (src/src/pci/mod.rs): the bus scanner, the capability-chain walker,     *)
(* the BAR decoder and the MSI-X capability controller.                    *)
(*                                                                         *)
(* Machine words.  TLC's integers are 32-bit signed, so a u32 is kept as   *)
(* two 16-bit limbs and a u64 as four, least significant limb first:       *)
(* 0xFEB0000C is <<\h000C, \hFEB0>>.  Every bit operation of the       *)
(* source is computed on the limbs at its full width.                      *)
(***************************************************************************)
EXTENDS Integers, Sequences, FiniteSets, TLC

VARIABLES
    cfg,        \* configuration space of the device under test: offset -> u32
    wmask,      \* hardware: the writable bits of each BAR register
    overflowChecks, \* build: TRUE when integer overflow panics (debug build)
    vbase,      \* the caller's translator: virtual = physical + (vbase << 48)
    op,         \* the operation that ran last
    arg,        \* its argument (BAR index, capability offset)
    pre,        \* configuration space before it ran
    log,        \* its configuration accesses, in order
    xl,         \* its calls to the translator (physical addresses), in order
    res,        \* its result
    capNext,    \* CapabilitiesIter.next
    capLive,    \* a CapabilitiesIter exists
    capOut,     \* what the iterator returned, in order (the first MaxCapOut)
    capTick,    \* parity of the number of CapabilitiesIter::next calls
    view,       \* offset of the live MsiX view, 0 when there is none
    enCount,    \* MsiX::enable calls made on the view so far
    cfg0,       \* configuration space when the view was created
    cfgEn1,     \* configuration space after the first enable
    devWord,    \* bus under scan: address -> the u32 at offset 0
    it,         \* PciDeviceIterator: [bus, device, function]
    scanOut,    \* what PciDeviceIterator::next has returned so far, in order
    cfgUnix,    \* build: TRUE when cfg(unix) holds for the target
    state,      \* the driver's DriverState, as state() returns it
    stateBefore,\* the DriverState before the last DriverControl call
    owned,      \* the caller still holds the driver (destroy takes it by value)
    live,       \* the views of the device that are alive: MsiX, table slice
    running,    \* the calls in progress, each with the accesses it has left
    trace,      \* the configuration accesses made, each with the call it is of
    nCalls      \* calls begun so far

hwVars   == <<cfg, wmask, overflowChecks, vbase>>
opVars   == <<op, arg, pre, log, xl, res>>
capVars  == <<capNext, capLive, capOut, capTick>>
enVars   == <<view, enCount, cfg0, cfgEn1>>
scanVars == <<devWord, it, scanOut>>
drvVars  == <<cfgUnix, state, stateBefore, owned>>
brwVars  == <<live, running, trace, nCalls>>
vars     == <<hwVars, opVars, capVars, enVars, scanVars, drvVars, brwVars>>

----------------------------------------------------------------------------
(* Limb arithmetic *)

Limb == 2^16
LimbMax == Limb - 1

W32(hi, lo) == <<lo, hi>>
W64(hi, lo) == <<lo[1], lo[2], hi[1], hi[2]>>
Zero32 == W32(0, 0)
Ones32 == W32(LimbMax, LimbMax)

\* a AND b on n-bit numbers, bit by bit
RECURSIVE AndBits(_, _, _)
AndBits(a, b, n) ==
    IF n = 0 THEN 0
    ELSE (a % 2) * (b % 2) + 2 * AndBits(a \div 2, b \div 2, n - 1)

\* a AND b on limbs, the all-zero and all-one limbs directly
And16(a, b) ==
    IF a = 0 \/ b = 0 THEN 0
    ELSE IF a = LimbMax THEN b
    ELSE IF b = LimbMax THEN a
    ELSE AndBits(a, b, 16)

\* Bitwise operations on words of any width
AndW(x, y) == [i \in DOMAIN x |-> And16(x[i], y[i])]
NotW(x)    == [i \in DOMAIN x |-> LimbMax - x[i]]
OrW(x, y)  == NotW(AndW(NotW(x), NotW(y)))

\* x + y on words of the same width: the wrapped sum and the carry out
RECURSIVE AddLimbs(_, _, _, _)
AddLimbs(x, y, i, carry) ==
    IF i > Len(x) THEN [sum |-> <<>>, carry |-> carry]
    ELSE LET s == x[i] + y[i] + carry
             r == AddLimbs(x, y, i + 1, s \div Limb)
         IN  [sum |-> <<s % Limb>> \o r.sum, carry |-> r.carry]

AddW(x, y) == AddLimbs(x, y, 1, 0)
OneW(x) == [i \in DOMAIN x |-> IF i = 1 THEN 1 ELSE 0]

\* bit_field::BitField
Bit(w, i) == (w[(i \div 16) + 1] \div 2^(i % 16)) % 2
RECURSIVE GetBitsFrom(_, _, _)
GetBitsFrom(w, a, b) ==
    IF a >= b THEN 0 ELSE Bit(w, a) + 2 * GetBitsFrom(w, a + 1, b)
get_bit(w, i) == Bit(w, i) = 1
get_bits(w, a, b) == GetBitsFrom(w, a, b)
set_bit(w, i) ==
    [k \in DOMAIN w |->
        IF k = (i \div 16) + 1 /\ Bit(w, i) = 0 THEN w[k] + 2^(i % 16) ELSE w[k]]

\* u32 as u64
Ext64(w) == <<w[1], w[2], 0, 0>>

----------------------------------------------------------------------------
(* The configuration accessor (crate::arch, PciInterface): read32/write32  *)
(* at an offset of the device's configuration space.  A write changes the  *)
(* addressed register only.  A BAR register keeps the bits the hardware    *)
(* does not implement (wmask clear): that is what makes writing all-ones   *)
(* and reading back yield the encoded size.  Every other register is plain *)
(* storage.                                                                *)

BarRegs == {16, 20, 24, 28, 32, 36, 40}    \* 0x10 .. 0x24, and 0x28 after them
CapOffs == {64, 80, 96}                    \* 0x40, 0x50, 0x60
Regs == {0, 4, 12, 52} \cup BarRegs \cup CapOffs \cup {c + 4 : c \in CapOffs}

HwWrite(c, off, v) ==
    IF off \in BarRegs
    THEN [c EXCEPT ![off] = OrW(AndW(v, wmask[off]), AndW(@, NotW(wmask[off])))]
    ELSE [c EXCEPT ![off] = v]

\* An operation in progress: the configuration space, the accesses made so
\* far and the translator calls made so far.
Start(c) == [cfg |-> c, log |-> <<>>, xl |-> <<>>]

read(s, off) ==
    [s EXCEPT !.log = Append(@, [k |-> "r", off |-> off, val |-> s.cfg[off]])]

write(s, off, v) ==
    [s EXCEPT !.cfg = HwWrite(@, off, v),
              !.log = Append(@, [k |-> "w", off |-> off, val |-> v])]

\* The caller's physical -> virtual translation: a fixed offset map
paddr_to_vaddr_conversion(p) == [p EXCEPT ![4] = (@ + vbase) % Limb]

\* Results
None == [kind |-> "none"]
Panic(why) == [kind |-> "panic", why |-> why]
Hang == [kind |-> "hang"]

\* x + 1 in the width of x: panics in a build with overflow checks, wraps
\* otherwise
AddChecked(x, y) ==
    LET a == AddW(x, y)
    IN  IF a.carry = 1 /\ overflowChecks THEN Panic("overflow")
        ELSE [kind |-> "ok", val |-> a.sum]

----------------------------------------------------------------------------
(* PciDevice::device_type and PciDevice::bar *)

device_type(header) ==
    LET t == get_bits(header, 16, 23)
    IN  IF t = 0 THEN "Endpoint" ELSE IF t = 1 THEN "PciBridge" ELSE "Unknown"

\* The assert on the index, per device type
IndexAccepted(ty, index) ==
    IF ty = "Endpoint" THEN index < 6 ELSE index < 2

\* (a probe that leaves the all-ones in the register)
Probe_no_restore(s, offset, orig) ==
    LET s1 == write(s, offset, Ones32)
        s2 == read(s1, offset)
    IN  [s |-> s2, val |-> s1.cfg[offset]]

\* (the register restored before the size is read back)
Probe_restore_first(s, offset, orig) ==
    LET s1 == write(s, offset, Ones32)
        s2 == write(s1, offset, orig)
        s3 == read(s2, offset)
    IN  [s |-> s3, val |-> s1.cfg[offset]]

\* write all-ones, read the encoded size back, restore: mod.rs 482-484 and
\* 510-512.  Yields the operation after the three accesses and the value read.
Probe(s, offset, orig) ==
    LET s1 == write(s, offset, Ones32)
        s2 == read(s1, offset)
        s3 == write(s2, offset, orig)
    IN  [s |-> s3, val |-> s1.cfg[offset]]

ClearLow4(w) == AndW(w, NotW([i \in DOMAIN w |-> IF i = 1 THEN 15 ELSE 0]))

\* !(size_encoded & !0xF) + 1, in the width of size_encoded
SizeOf(size_encoded) ==
    AddChecked(NotW(ClearLow4(size_encoded)), OneW(size_encoded))

Bar32(s, base, prefetchable, size_encoded) ==
    LET size == SizeOf(size_encoded)
    IN  IF size.kind = "panic" THEN [s |-> s, r |-> size]
        ELSE [s |-> s,
              r |-> [kind |-> "bar", region_type |-> "Mem",
                     prefetchable |-> prefetchable,
                     address |-> Ext64(ClearLow4(base)),
                     size |-> Ext64(size.val)]]

Bar64(s, offset, base, prefetchable, size_encoded) ==
    LET next_offset == offset + 4
        next_bar == s.cfg[next_offset]
        s1 == read(s, next_offset)
        address == OrW(Ext64(ClearLow4(base)), W64(next_bar, Zero32))
        p == Probe(s1, next_offset, next_bar)
        size == SizeOf(W64(p.val, size_encoded))
    IN  IF size.kind = "panic" THEN [s |-> p.s, r |-> size]
        ELSE [s |-> p.s,
              r |-> [kind |-> "bar", region_type |-> "Mem",
                     prefetchable |-> prefetchable,
                     address |-> address,
                     size |-> size.val]]

\* (the unused check made after the decoding)
BarMem_check_after_decode(s, offset, base) ==
    LET locatable == get_bits(base, 1, 3)
        prefetchable == get_bit(base, 3)
        p == Probe(s, offset, base)
        d == IF locatable = 0 THEN Bar32(p.s, base, prefetchable, p.val)
             ELSE IF locatable = 2 THEN Bar64(p.s, offset, base, prefetchable, p.val)
             ELSE [s |-> p.s, r |-> Panic("unimplemented: locatable")]
    IN  IF d.r.kind = "panic" THEN d
        ELSE IF p.val = Zero32 THEN [s |-> d.s, r |-> None]
        ELSE d

\* (a reserved locatable value decoded as a 32-bit BAR)
BarMem_reserved_as_32(s, offset, base) ==
    LET prefetchable == get_bit(base, 3)
        p == Probe(s, offset, base)
    IN  IF p.val = Zero32 THEN [s |-> p.s, r |-> None]
        ELSE IF get_bits(base, 1, 3) = 2 THEN Bar64(p.s, offset, base, prefetchable, p.val)
        ELSE Bar32(p.s, base, prefetchable, p.val)

BarMem(s, offset, base) ==
    LET locatable == get_bits(base, 1, 3)
        prefetchable == get_bit(base, 3)
        p == Probe(s, offset, base)
    IN  IF p.val = Zero32 THEN [s |-> p.s, r |-> None]
        ELSE IF locatable = 0 THEN Bar32(p.s, base, prefetchable, p.val)
        ELSE IF locatable = 2 THEN Bar64(p.s, offset, base, prefetchable, p.val)
        ELSE [s |-> p.s, r |-> Panic("unimplemented: locatable")]

bar(s, index) ==
    LET ty == device_type(s.cfg[12])
        s1 == read(s, 12)
    IN  IF ty = "Unknown" THEN [s |-> s1, r |-> None]
        ELSE IF ~IndexAccepted(ty, index) THEN [s |-> s1, r |-> Panic("assert: index")]
        ELSE LET offset == 16 + index * 4
                 base == s1.cfg[offset]
                 s2 == read(s1, offset)
             IN  IF get_bit(base, 0)
                 THEN [s |-> s2, r |-> Panic("unimplemented: IO BAR")]
                 ELSE BarMem(s2, offset, base)

----------------------------------------------------------------------------
(* Capabilities: PciDevice::status, capabilities_pointer, capabilities,    *)
(* CapabilitiesIter::next and CapabilityId::from                           *)

CapabilityNames ==
    <<"Null", "PowerManagement", "Agp", "Vdp", "SlotIdent", "Msi", "CompactPci",
      "PciX", "HyperTransport", "VendorSpecific", "DebugPort", "CompactPCI",
      "HotPlug", "BridgeSubsystemVendor", "Agp8", "SecureDevice", "PCIExpress",
      "MsiX", "SerialAtaConfiguration", "AdvancedFeatures", "EnhancedAllocation",
      "FlatteningPortalBridge">>

CapabilityId_from(capid) ==
    IF capid < Len(CapabilityNames) THEN CapabilityNames[capid + 1]
    ELSE <<"Unknown", capid>>

\* (read(0x4) >> 16) as u16
status(c) == <<c[4][2]>>

\* The iterator's first offset: the pointer, or 0 where the code has None
\* (the pointer taken without looking at status bit 4)
capabilities_pointer_no_status(s) ==
    LET cap_ptr == get_bits(s.cfg[52], 0, 8)
    IN  [s |-> read(read(s, 52), 4), next |-> cap_ptr]

capabilities_pointer(s) ==
    LET cap_ptr == get_bits(s.cfg[52], 0, 8)
        s1 == read(s, 52)
        s2 == read(s1, 4)
    IN  [s |-> s2,
         next |-> IF get_bit(status(s.cfg), 4) /\ cap_ptr # 0 THEN cap_ptr ELSE 0]

capabilities(s) == capabilities_pointer(s)

\* (the field next left where it was)
CapabilitiesIter_next_stuck(s, nxt) ==
    IF nxt = 0 THEN [s |-> s, item |-> None, next |-> nxt]
    ELSE [s |-> read(s, nxt),
          item |-> [kind |-> "some",
                    id |-> CapabilityId_from(get_bits(s.cfg[nxt], 0, 8)),
                    offset |-> nxt],
          next |-> nxt]

\* One call of CapabilitiesIter::next with the field next = nxt
CapabilitiesIter_next(s, nxt) ==
    IF nxt = 0 THEN [s |-> s, item |-> None, next |-> nxt]
    ELSE LET cap_header == s.cfg[nxt]
         IN  [s |-> read(s, nxt),
              item |-> [kind |-> "some",
                        id |-> CapabilityId_from(get_bits(cap_header, 0, 8)),
                        offset |-> nxt],
              next |-> get_bits(cap_header, 8, 16)]

\* (MSI taken for MSI-X)
RECURSIVE find_msi_or_msix(_, _, _)
find_msi_or_msix(s, nxt, seen) ==
    IF nxt \in seen THEN [s |-> s, r |-> Hang]
    ELSE LET n == CapabilitiesIter_next(s, nxt)
         IN  IF n.item.kind = "none" THEN [s |-> n.s, r |-> None]
             ELSE IF n.item.id \in {"Msi", "MsiX"}
             THEN [s |-> n.s, r |-> [kind |-> "msix", offset |-> n.item.offset]]
             ELSE find_msi_or_msix(n.s, n.next, seen \cup {nxt})

\* Iterator::find(|cap| cap.id == MsiX): next() until a match or None.  The
\* walk reads only, so it is a function of the offset: coming back to an
\* offset already visited means the loop never ends (Hang).
RECURSIVE find_msix(_, _, _)
find_msix(s, nxt, seen) ==
    IF nxt \in seen THEN [s |-> s, r |-> Hang]
    ELSE LET n == CapabilitiesIter_next(s, nxt)
         IN  IF n.item.kind = "none" THEN [s |-> n.s, r |-> None]
             ELSE IF n.item.id = "MsiX"
             THEN [s |-> n.s, r |-> [kind |-> "msix", offset |-> n.item.offset]]
             ELSE find_msix(n.s, n.next, seen \cup {nxt})

\* PciDevice::get_cap_region_mut on the capability record at an offset
get_cap_region_mut(c, offset) ==
    IF CapabilityId_from(get_bits(c[offset], 0, 8)) = "MsiX"
    THEN [kind |-> "msix", offset |-> offset]
    ELSE Panic("unimplemented: capability")

get_msix_config(s) ==
    LET c == capabilities(s) IN find_msix(c.s, c.next, {})

\* PciDevice::enable_bus_mastering
enable_bus_mastering(s) ==
    LET command == set_bit(s.cfg[4], 2)
    IN  write(read(s, 4), 4, command)

----------------------------------------------------------------------------
(* MsiX: a view at a capability offset *)

\* (read(offset) >> 16) as u16
message_control(c, offset) == <<c[offset][2]>>
enabled(c, offset) == get_bit(message_control(c, offset), 15)
\* (an 11-bit field)
table_size_11_bits(c, offset) == get_bits(message_control(c, offset), 0, 11)

table_size(c, offset) == get_bits(message_control(c, offset), 0, 10)
bir(c, offset) == AndW(c[offset + 4], W32(0, 7))[1]
\* (the BIR bits left in)
table_offset_unmasked(c, offset) == c[offset + 4]

table_offset(c, offset) == AndW(c[offset + 4], NotW(W32(0, 7)))

\* (bit 15 flipped instead of set)
enable_toggle(s, offset) ==
    LET mc == message_control(s.cfg, offset)
        ctrl == IF get_bit(mc, 15) THEN <<mc[1] - 2^15>> ELSE set_bit(mc, 15)
        hdr == OrW(AndW(s.cfg[offset], W32(0, LimbMax)), W32(ctrl[1], 0))
    IN  write(read(read(s, offset), offset), offset, hdr)

\* (the low byte kept instead of the low 16 bits)
enable_low_byte(s, offset) ==
    LET ctrl == set_bit(message_control(s.cfg, offset), 15)
        hdr == OrW(AndW(s.cfg[offset], W32(0, 255)), W32(ctrl[1], 0))
    IN  write(read(read(s, offset), offset), offset, hdr)

enable(s, offset) ==
    LET ctrl == set_bit(message_control(s.cfg, offset), 15)
        s1 == read(s, offset)
        s2 == read(s1, offset)
        hdr == OrW(AndW(s.cfg[offset], W32(0, LimbMax)), W32(ctrl[1], 0))
    IN  write(s2, offset, hdr)

\* (a BAR that does not decode taken for an absent table)
TableView_none_on_unused(s, offset) ==
    LET s1 == read(s, offset)
        s2 == IF enabled(s.cfg, offset) THEN s1 ELSE enable(s1, offset)
        table_bar == bir(s2.cfg, offset)
        toff == table_offset(s2.cfg, offset)
        entries == table_size(s2.cfg, offset) + 1
        s3 == read(read(read(s2, offset + 4), offset + 4), offset)
        b == bar(s3, table_bar)
    IN  IF b.r.kind \in {"panic", "none"} THEN [s |-> b.s, r |-> None]
        ELSE LET paddr == AddChecked(b.r.address, Ext64(toff))
             IN  IF paddr.kind = "panic" THEN [s |-> b.s, r |-> paddr]
                 ELSE [s |-> [b.s EXCEPT !.xl = Append(@, paddr.val)],
                       r |-> [kind |-> "view",
                              addr |-> paddr_to_vaddr_conversion(paddr.val),
                              entries |-> entries]]

\* PciDevice::get_msix_irq_table_mut.  The log::info! lines read only and
\* are left out.
TableView(s, offset) ==
    LET s1 == read(s, offset)
        s2 == IF enabled(s.cfg, offset) THEN s1 ELSE enable(s1, offset)
        table_bar == bir(s2.cfg, offset)
        toff == table_offset(s2.cfg, offset)
        entries == table_size(s2.cfg, offset) + 1
        s3 == read(read(read(s2, offset + 4), offset + 4), offset)
        b == bar(s3, table_bar)
    IN  IF b.r.kind = "panic" THEN b
        ELSE IF b.r.kind = "none" THEN [s |-> b.s, r |-> Panic("unwrap on None")]
        ELSE LET paddr == AddChecked(b.r.address, Ext64(toff))
             IN  IF paddr.kind = "panic" THEN [s |-> b.s, r |-> paddr]
                 ELSE [s |-> [b.s EXCEPT !.xl = Append(@, paddr.val)],
                       r |-> [kind |-> "view",
                              addr |-> paddr_to_vaddr_conversion(paddr.val),
                              entries |-> entries]]

get_msix_irq_table_mut(s) ==
    LET m == get_msix_config(s)
    IN  IF m.r.kind = "msix" THEN TableView(m.s, m.r.offset) ELSE m

----------------------------------------------------------------------------
(* The bus scanner: PCIAddress::new, PCIHeader::new / is_valid,            *)
(* PciDevice::new and PciDeviceIterator::next                              *)

LastBus == 2        \* the bus range 0..=255 of the source, scaled down
LastDev == 31
LastFun == 7

\* addr.read(0) on the bus: nothing answers at an address without a device,
\* and the read yields all-ones
ReadWord0(addr) == IF addr \in DOMAIN devWord THEN devWord[addr] ELSE Ones32

\* v << n on a u32, for a v below 2^8
Shl(v, n) ==
    IF n >= 16 THEN W32((v * 2^(n - 16)) % Limb, 0)
    ELSE W32(((v * 2^n) \div Limb) % Limb, (v * 2^n) % Limb)

\* (the device number shifted by 12)
PCIAddress_addr_dev_shift_12(self) ==
    OrW(OrW(OrW(Shl(1, 31), Shl(self.bus, 16)), Shl(self.dev, 12)), Shl(self.fun, 8))

\* PCIAddress::addr
PCIAddress_addr(self) ==
    OrW(OrW(OrW(Shl(1, 31), Shl(self.bus, 16)), Shl(self.dev, 11)), Shl(self.fun, 8))

\* (device 32 let through)
PCIAddress_new_dev_32(bus, dev, fun) ==
    IF ~(dev <= 32) \/ ~(fun <= 7) THEN Panic("assert: address")
    ELSE [kind |-> "addr", bus |-> bus, dev |-> dev, fun |-> fun]

PCIAddress_new(bus, dev, fun) ==
    IF ~(dev <= 31) \/ ~(fun <= 7) THEN Panic("assert: address")
    ELSE [kind |-> "addr", bus |-> bus, dev |-> dev, fun |-> fun]

\* (a check of the vendor half alone)
is_valid_vendor_only(addr) == ReadWord0(<<addr.bus, addr.dev, addr.fun>>)[1] # LimbMax

is_valid(addr) == ReadWord0(<<addr.bus, addr.dev, addr.fun>>) # Ones32

PCIHeader_new(bus, device, function) ==
    LET addr == PCIAddress_new(bus, device, function)
    IN  IF addr.kind = "panic" THEN addr
        ELSE IF is_valid(addr) THEN addr
        ELSE None

PciDevice_new(bus, device, function) == PCIHeader_new(bus, device, function)

\* The configuration reads PCIHeader::new makes: none when the address is
\* rejected, the word at offset 0 (is_valid) otherwise
PCIHeader_new_reads(bus, device, function) ==
    IF PCIAddress_new(bus, device, function).kind = "panic" THEN <<>>
    ELSE <<[k |-> "r", off |-> 0, val |-> ReadWord0(<<bus, device, function>>)]>>

\* for function in from..=7: the first function that holds a device, or None
RECURSIVE ScanFunctions(_, _, _)
ScanFunctions(bus, device, function) ==
    IF function > LastFun THEN None
    ELSE IF PciDevice_new(bus, device, function).kind = "addr"
    THEN [kind |-> "some", function |-> function]
    ELSE ScanFunctions(bus, device, function + 1)

\* for device in from..=31, with the iterator's fields as they stand
RECURSIVE ScanDevices(_, _, _)
ScanDevices(self, bus, device) ==
    IF device > LastDev THEN [self |-> self, r |-> None]
    ELSE LET f == ScanFunctions(bus, device, self.function)
         IN  IF f.kind = "some"
             THEN [self |-> [bus |-> bus, device |-> device,
                             function |-> f.function + 1],
                   r |-> [kind |-> "some", addr |-> <<bus, device, f.function>>]]
             ELSE ScanDevices([self EXCEPT !.function = 0], bus, device + 1)

\* for bus in from..=255
RECURSIVE ScanBuses(_, _)
ScanBuses(self, bus) ==
    IF bus > LastBus THEN [self |-> self, r |-> None]
    ELSE LET d == ScanDevices(self, bus, self.device)
         IN  IF d.r.kind = "some" THEN d
             ELSE ScanBuses([d.self EXCEPT !.device = 0], bus + 1)

PciDeviceIterator_next(self) == ScanBuses(self, self.bus)

scan_bus == [bus |-> 0, device |-> 0, function |-> 0]

----------------------------------------------------------------------------
(* DriverState and DriverControl (lib.rs).  A transition method yields the  *)
(* state set_state is given, or a panic when its assert fails.  The asserts *)
(* of attach, detach, set_sleep_level and destroy are compiled under        *)
(* cfg(unix) only; the assert of init is in every build.                    *)

Uninitialized == [tag |-> "Uninitialized", level |-> 0]
Initialized   == [tag |-> "Initialized", level |-> 0]
Attached(x)   == [tag |-> "Attached", level |-> x]
Detached      == [tag |-> "Detached", level |-> 0]
Destroyed     == [tag |-> "Destroyed", level |-> 0]

\* matches!(st, DriverState::Attached(_))
IsAttached(st) == st.tag = "Attached"

\* A method whose assert, when compiled in and false, panics before
\* set_state, and which otherwise sets the state to ds
Transition(asserted, holds, ds) ==
    IF asserted /\ ~holds THEN [r |-> Panic("assert: state"), state |-> state]
    ELSE [r |-> [kind |-> "ok"], state |-> ds]

DriverControl_init ==
    Transition(TRUE, state = Uninitialized, Initialized)

DriverControl_attach ==
    Transition(cfgUnix,
               state = Initialized \/ state = Detached \/ IsAttached(state),
               Attached(0))

DriverControl_detach == Transition(cfgUnix, IsAttached(state), Detached)

DriverControl_set_sleep_level(level) ==
    Transition(cfgUnix, IsAttached(state), Attached(level))

DriverControl_destroy == Transition(cfgUnix, IsAttached(state), Destroyed)

----------------------------------------------------------------------------
(* Configuration-space contents and the states each specification starts from *)

MaxNextCalls == 7   \* PciDeviceIterator::next calls followed
MaxCapOut == 5      \* results of CapabilitiesIter::next recorded
MaxEnable == 2      \* MsiX::enable calls followed on one view
MaxCalls == 3       \* calls begun on one device
MaxLevel == 3       \* sleep levels 0..MaxLevel handed to set_sleep_level

Idle == [kind |-> "idle"]

\* A register file: header-type word, status bit 4, the word at 0x34, the
\* two words of the capabilities at 0x40 and 0x50, and the BAR registers
\* (lo in BAR0, BAR2, BAR4; hi in BAR1, BAR3, BAR5 and at 0x28).
MkCfg(hdr, st4, ptr, w40, t40, w50, t50, lo, hi) ==
    [r \in Regs |->
        CASE r = 0  -> W32(\h1234, \h8086)
          [] r = 4  -> W32(IF st4 THEN \h0010 ELSE \h0000, \h0006)
          [] r = 12 -> hdr
          [] r = 52 -> ptr
          [] r = 64 -> w40
          [] r = 68 -> t40
          [] r = 80 -> w50
          [] r = 84 -> t50
          [] r \in {16, 24, 32} -> lo
          [] r \in {20, 28, 36, 40} -> hi
          [] OTHER -> Zero32]

MkMask(mlo, mhi) == [r \in BarRegs |-> IF r \in {16, 24, 32} THEN mlo ELSE mhi]

\* A capability header word: message control / id / next
CapWord(ctl, id, next) == W32(ctl, next * 256 + id)

PlainCfg ==
    MkCfg(Zero32, FALSE, Zero32, Zero32, Zero32, Zero32, Zero32, Zero32, Zero32)

HwIdle ==
    /\ cfg = PlainCfg
    /\ wmask = MkMask(Ones32, Ones32)
    /\ overflowChecks = FALSE
    /\ vbase = 0

OpIdle ==
    /\ op = "init" /\ arg = 0 /\ pre = cfg /\ log = <<>> /\ xl = <<>> /\ res = Idle

CapIdle == capNext = 0 /\ capLive = FALSE /\ capOut = <<>> /\ capTick = FALSE
EnIdle == view = 0 /\ enCount = 0 /\ cfg0 = cfg /\ cfgEn1 = cfg
ScanIdle == devWord = <<>> /\ it = scan_bus /\ scanOut = <<>>
BrwIdle == live = {} /\ running = {} /\ trace = <<>> /\ nCalls = 0
DrvIdle ==
    cfgUnix = TRUE /\ state = Uninitialized /\ stateBefore = Uninitialized /\ owned = TRUE

\* The program stops at a fatal fault, and never leaves a loop that hangs
Running == res.kind \notin {"panic", "hang"}

----------------------------------------------------------------------------
(* The driver life cycle: DriverControl calls on one driver, in a build    *)
(* with or without cfg(unix)                                               *)

InitDrv ==
    /\ HwIdle /\ OpIdle /\ CapIdle /\ EnIdle /\ BrwIdle /\ ScanIdle
    /\ cfgUnix \in BOOLEAN
    /\ state = Uninitialized /\ stateBefore = Uninitialized /\ owned = TRUE

\* One call of a transition method, t being what the method yields
DrvCall(name, level, t, keeps) ==
    /\ Running /\ owned
    /\ state' = t.state /\ stateBefore' = state /\ owned' = keeps
    /\ op' = name /\ arg' = level /\ res' = t.r
    /\ UNCHANGED <<brwVars, cfgUnix, pre, log, xl, hwVars, capVars, enVars, scanVars>>

Init_ == DrvCall("DriverControl::init", 0, DriverControl_init, TRUE)
Attach == DrvCall("DriverControl::attach", 0, DriverControl_attach, TRUE)
Detach == DrvCall("DriverControl::detach", 0, DriverControl_detach, TRUE)
SetSleepLevel(level) ==
    DrvCall("DriverControl::set_sleep_level", level,
            DriverControl_set_sleep_level(level), TRUE)
\* destroy(mut self) takes the driver by value: no call can follow it
Destroy == DrvCall("DriverControl::destroy", 0, DriverControl_destroy, FALSE)

NextDrv ==
    \/ Init_
    \/ Attach
    \/ Detach
    \/ \E level \in 0..MaxLevel : SetSleepLevel(level)
    \/ Destroy

SpecDrv == InitDrv /\ [][NextDrv]_vars

\* --- properties of the life cycle ---

DrvOps ==
    {"DriverControl::init", "DriverControl::attach", "DriverControl::detach",
     "DriverControl::set_sleep_level", "DriverControl::destroy"}

\* The precondition the life cycle gives each method
Precondition(name, st) ==
    CASE name = "DriverControl::init" -> st.tag = "Uninitialized"
      [] name = "DriverControl::attach" -> st.tag \in {"Initialized", "Detached"}
      [] OTHER -> st.tag = "Attached"

\* The state each method leads to
Target(name, level) ==
    CASE name = "DriverControl::init" -> [tag |-> "Initialized", level |-> 0]
      [] name = "DriverControl::attach" -> [tag |-> "Attached", level |-> 0]
      [] name = "DriverControl::detach" -> [tag |-> "Detached", level |-> 0]
      [] name = "DriverControl::set_sleep_level" -> [tag |-> "Attached", level |-> level]
      [] OTHER -> [tag |-> "Destroyed", level |-> 0]

\* C12: a transition method called in a state that satisfies its
\* precondition (init: Uninitialized; attach: Initialized or Detached;
\* set_sleep_level, detach, destroy: Attached(x)) moves the driver to the
\* method's state; called in any other state it is a fatal fault and the
\* state stays what it was.  No other state change occurs.
C12_LifecycleLegal ==
    op \in DrvOps =>
        IF Precondition(op, stateBefore)
        THEN res.kind = "ok" /\ state = Target(op, arg)
        ELSE res.kind = "panic" /\ state = stateBefore

\* C13: the driver is Destroyed only by destroy called in Attached(x), and
\* a call made in Destroyed leaves it Destroyed.
C13_DestroyedTerminal ==
    /\ state.tag = "Destroyed" =>
          \/ op = "DriverControl::destroy" /\ stateBefore.tag = "Attached"
          \/ stateBefore.tag = "Destroyed"
    /\ stateBefore.tag = "Destroyed" => state.tag = "Destroyed"

----------------------------------------------------------------------------
(* Addresses: PciDevice::new on any three u8, and PCIAddress::addr         *)

\* u8 arguments: the ends of the ranges, the first values past them, u8::MAX
NewBuses == {0, 255}
NewDevs == {0, 31, 32, 255}
NewFuns == {0, 7, 8, 255}

\* Valid addresses encoded
AddrBuses == {0, 1, 85, 170, 255}
AddrDevs == {0, 1, 10, 21, 31}
AddrFuns == 0..7

InitAddr ==
    /\ HwIdle /\ OpIdle /\ CapIdle /\ EnIdle /\ BrwIdle /\ DrvIdle
    /\ it = scan_bus /\ scanOut = <<>>
    /\ \E w \in {Ones32, W32(\h1234, \h8086)} :
          devWord = [a \in {<<0, 0, 0>>, <<255, 31, 7>>} |-> w]

NewDevice(bus, device, function) ==
    /\ Running
    /\ res' = PciDevice_new(bus, device, function)
    /\ log' = PCIHeader_new_reads(bus, device, function)
    /\ op' = "new" /\ arg' = <<bus, device, function>>
    /\ UNCHANGED <<brwVars, pre, xl, hwVars, capVars, enVars, scanVars, drvVars>>

Addr(bus, dev, fun) ==
    /\ Running
    /\ LET a == PCIAddress_new(bus, dev, fun)
       IN  res' = IF a.kind = "panic" THEN a ELSE [kind |-> "word", val |-> PCIAddress_addr(a)]
    /\ op' = "addr" /\ arg' = <<bus, dev, fun>> /\ log' = <<>>
    /\ UNCHANGED <<brwVars, pre, xl, hwVars, capVars, enVars, scanVars, drvVars>>

NextAddr ==
    \/ \E bus \in NewBuses, device \in NewDevs, function \in NewFuns :
          NewDevice(bus, device, function)
    \/ \E bus \in AddrBuses, dev \in AddrDevs, fun \in AddrFuns : Addr(bus, dev, fun)

SpecAddr == InitAddr /\ [][NextAddr]_vars

\* --- properties of addresses ---

\* C14: PciDevice::new with device > 31 or function > 7 ends in a fatal
\* fault before any configuration access; with device <= 31 and
\* function <= 7 it does not end in a fault.
C14_AddressValidation ==
    op = "new" =>
        IF arg[2] > 31 \/ arg[3] > 7
        THEN res.kind = "panic" /\ log = <<>>
        ELSE res.kind \in {"addr", "none"}

\* Function 8 of device 31 rejected, nothing read
C14_Witness ==
    op = "new" /\ arg = <<255, 31, 8>> /\ res.kind = "panic" /\ log = <<>>

\* C15: for a valid (bus, device, function), addr() has bit 31 set, bits
\* 16-23 are the bus, bits 11-15 the device, bits 8-10 the function, bits
\* 0-7 and 24-30 are zero, and no other valid triple has the same word.
C15_AddrRoundTrip ==
    (op = "addr" /\ res.kind = "word") =>
        /\ get_bit(res.val, 31)
        /\ get_bits(res.val, 16, 24) = arg[1]
        /\ get_bits(res.val, 11, 16) = arg[2]
        /\ get_bits(res.val, 8, 11) = arg[3]
        /\ get_bits(res.val, 0, 8) = 0
        /\ get_bits(res.val, 24, 31) = 0
        /\ \A b \in AddrBuses, d \in AddrDevs, f \in AddrFuns :
              PCIAddress_addr([bus |-> b, dev |-> d, fun |-> f]) = res.val => <<b, d, f>> = arg

\* The last address: 0x80FFFF00
C15_Witness ==
    op = "addr" /\ arg = <<255, 31, 7>> /\ res.val = W32(\h80FF, \hFF00)

----------------------------------------------------------------------------
(* The bus scan *)

ScanAddrs ==
    {<<0, 0, 0>>, <<0, 0, 7>>, <<0, 3, 0>>, <<1, 0, 0>>, <<LastBus, LastDev, LastFun>>}

\* What offset 0 may read: no device, a device, a device whose vendor half
\* alone is all-ones
ScanWords == {Ones32, W32(\h1234, \h8086), W32(\h1234, \hFFFF)}

InitScan ==
    /\ HwIdle /\ OpIdle /\ CapIdle /\ EnIdle /\ BrwIdle /\ DrvIdle
    /\ devWord \in [ScanAddrs -> ScanWords]
    /\ it = scan_bus
    /\ scanOut = <<>>

ScanNext ==
    /\ Len(scanOut) < MaxNextCalls
    /\ LET n == PciDeviceIterator_next(it)
       IN  /\ it' = n.self
           /\ scanOut' = Append(scanOut, n.r)
    /\ UNCHANGED <<brwVars, drvVars, devWord, hwVars, opVars, capVars, enVars>>

NextScan == ScanNext

SpecScan == InitScan /\ [][NextScan]_vars

\* --- properties of the bus scan ---

LexLess(a, b) ==
    \/ a[1] < b[1]
    \/ a[1] = b[1] /\ a[2] < b[2]
    \/ a[1] = b[1] /\ a[2] = b[2] /\ a[3] < b[3]

\* The addresses whose word at offset 0 is not all-ones
Present == {a \in DOMAIN devWord : devWord[a] # Ones32}

NoneAt == {i \in 1..Len(scanOut) : scanOut[i].kind = "none"}
\* The calls made before next() first returned None
BeforeNone == {i \in 1..Len(scanOut) : \A k \in NoneAt : i < k}

\* C2: the calls of next() up to its first None yield exactly the addresses
\* whose word at offset 0 is not all-ones, each once, in lexicographic
\* (bus, device, function) order: every yield is such an address, the yields
\* strictly increase, none is skipped, and at the first None all were yielded.
C2_ScanComplete ==
    /\ \A i \in BeforeNone : scanOut[i].addr \in Present
    /\ \A i, j \in BeforeNone : i < j => LexLess(scanOut[i].addr, scanOut[j].addr)
    /\ \A i \in BeforeNone : \A a \in Present :
          LexLess(a, scanOut[i].addr) => \E k \in BeforeNone : scanOut[k].addr = a
    /\ NoneAt # {} => {scanOut[i].addr : i \in BeforeNone} = Present

\* The spec's example: devices at (0,0,0), (0,3,0), (1,0,0) only, scanned to None
C2_Witness ==
    /\ Present = {<<0, 0, 0>>, <<0, 3, 0>>, <<1, 0, 0>>}
    /\ Len(scanOut) = 4
    /\ scanOut[1].kind = "some" /\ scanOut[1].addr = <<0, 0, 0>>
    /\ scanOut[2].kind = "some" /\ scanOut[2].addr = <<0, 3, 0>>
    /\ scanOut[3].kind = "some" /\ scanOut[3].addr = <<1, 0, 0>>
    /\ scanOut[4].kind = "none"

\* C3: over any number of next() calls on one iterator the yielded addresses
\* strictly increase (none is yielded twice), and once next() has returned
\* None every later call returns None.
C3_ScanNonOverlap ==
    /\ \A i, j \in 1..Len(scanOut) :
          (i < j /\ scanOut[i].kind = "some" /\ scanOut[j].kind = "some")
              => LexLess(scanOut[i].addr, scanOut[j].addr)
    /\ \A i, j \in 1..Len(scanOut) :
          (i < j /\ scanOut[i].kind = "none") => scanOut[j].kind = "none"

----------------------------------------------------------------------------
(* The capability walk: capabilities(), then CapabilitiesIter::next *)

CapPtrWords == {Zero32, W32(0, \h40), W32(\hABCD, \h1250), W32(0, \h60), W32(\hABCD, \h1200)}
Cap40Words == {CapWord(\h8003, id, nx) : id \in {\h01, \h11, \hAB}, nx \in {0, \h40, \h50, \h60}}
Cap50Words == {CapWord(\h0007, id, nx) : id \in {\h01, \h11}, nx \in {0, \h40, \h60}}
Cap60Words == {CapWord(\hFFFF, id, nx) : id \in {\h10, \h11}, nx \in {0, \h50}}

InitCap ==
    /\ \E st4 \in BOOLEAN, ptr \in CapPtrWords, w40 \in Cap40Words,
          w50 \in Cap50Words, w60 \in Cap60Words :
          cfg = [MkCfg(Zero32, st4, ptr, w40, Zero32, w50, Zero32, Zero32, Zero32)
                    EXCEPT ![96] = w60]
    /\ wmask = MkMask(Ones32, Ones32)
    /\ overflowChecks = FALSE
    /\ vbase = 0
    /\ OpIdle /\ CapIdle /\ EnIdle /\ BrwIdle /\ DrvIdle /\ ScanIdle

Capabilities ==
    /\ ~capLive
    /\ LET c == capabilities(Start(cfg))
       IN  /\ capNext' = c.next
           /\ cfg' = c.s.cfg /\ log' = c.s.log /\ xl' = c.s.xl
    /\ capLive' = TRUE /\ capOut' = <<>> /\ capTick' = FALSE
    /\ op' = "capabilities" /\ arg' = 0 /\ pre' = cfg /\ res' = Idle
    /\ UNCHANGED <<brwVars, drvVars, wmask, overflowChecks, vbase, enVars, scanVars>>

CapNext ==
    /\ capLive
    /\ LET n == CapabilitiesIter_next(Start(cfg), capNext)
       IN  /\ capNext' = n.next
           /\ capOut' = IF Len(capOut) < MaxCapOut THEN Append(capOut, n.item) ELSE capOut
           /\ cfg' = n.s.cfg /\ log' = n.s.log /\ xl' = n.s.xl
           /\ res' = n.item
    /\ capTick' = ~capTick
    /\ op' = "cap_next" /\ arg' = capNext /\ pre' = cfg
    /\ UNCHANGED <<brwVars, drvVars, capLive, wmask, overflowChecks, vbase, enVars, scanVars>>

NextCap == Capabilities \/ CapNext

SpecCap == InitCap /\ [][NextCap]_vars

\* A caller that iterates keeps calling next()
FairSpecCap == SpecCap /\ WF_vars(CapNext)

\* --- properties of the capability walk ---

IdField(w) == w[1] % 256
NextField(w) == (w[1] \div 256) % 256

\* Where the chain starts: the low byte at 0x34 when status bit 4 (bit 20 of
\* the word at 0x04) is set, and nowhere (0) otherwise
ChainStartOf(c) == IF (c[4][2] \div 16) % 2 = 1 THEN IdField(c[52]) ELSE 0
ChainStart == ChainStartOf(cfg)

\* Following the next-offsets from off reaches a zero within fuel links
RECURSIVE ReachesEnd(_, _, _)
ReachesEnd(c, off, fuel) ==
    off = 0 \/ (fuel > 0 /\ ReachesEnd(c, NextField(c[off]), fuel - 1))

AcyclicIn(c) == ReachesEnd(c, ChainStartOf(c), Cardinality(CapOffs))
Acyclic == AcyclicIn(cfg)

NoneReturned == \E i \in 1..Len(capOut) : capOut[i].kind = "none"

\* C4: capabilities() yields nothing when status bit 4 is clear or the
\* pointer at 0x34 is zero; otherwise the first record is at the pointer, each
\* further record is at the next-offset (bits 8-15) of the word at the record
\* before it, each record's id is the low 8 bits of the word at its offset,
\* and the call after a record whose next-offset is zero returns None, as
\* does every call after a None.
C4_CapWalk ==
    capLive =>
        \A i \in 1..Len(capOut) :
            LET at == IF i = 1 THEN ChainStart
                      ELSE IF capOut[i - 1].kind = "none" THEN 0
                      ELSE NextField(cfg[capOut[i - 1].offset])
            IN  IF at = 0 THEN capOut[i].kind = "none"
                ELSE /\ capOut[i].kind = "some"
                     /\ capOut[i].offset = at
                     /\ capOut[i].id = CapabilityId_from(IdField(cfg[at]))

\* The spec's example: next-offsets 0x40, 0x50, 0x00 give two records, at
\* 0x40 and 0x50, and then None
C4_Witness ==
    /\ capLive /\ Len(capOut) = 3
    /\ ChainStart = \h40 /\ NextField(cfg[\h40]) = \h50 /\ NextField(cfg[\h50]) = 0
    /\ capOut[1].kind = "some" /\ capOut[1].offset = \h40
    /\ capOut[2].kind = "some" /\ capOut[2].offset = \h50 /\ capOut[2].id = "MsiX"
    /\ capOut[3].kind = "none"

\* C5 as stated: whatever the configuration space holds, an iteration of
\* capabilities() comes to a None.
C5_AlwaysFinite == capLive ~> NoneReturned

\* C5 amended: when the chain is acyclic (the next-offsets followed from the
\* start reach a zero), an iteration of capabilities() comes to a None, after
\* at most one record per capability offset.
C5_FiniteIfAcyclic ==
    /\ (capLive /\ Acyclic) ~> NoneReturned
    /\ [](Acyclic => Cardinality({i \in 1..Len(capOut) : capOut[i].kind = "some"})
                        <= Cardinality(CapOffs))

\* An acyclic chain of three records walked to its end
C5_Witness ==
    /\ capLive /\ Acyclic /\ Len(capOut) = 4
    /\ capOut[3].kind = "some" /\ capOut[4].kind = "none"

----------------------------------------------------------------------------
(* BAR queries: PciDevice::bar on every index a u8 caller may pass *)

\* Header-type words: endpoint, multi-function endpoint, bridge, CardBus
HdrWords == {Zero32, W32(\h0080, 0), W32(\h0001, 0), W32(\h0002, 0)}

BarLoWords ==
    {Zero32, W32(\hFEB0, \h0000), W32(\hFEB0, \h0008), W32(\hFEB0, \h000C),
     W32(\hFFFF, \hFFF4), W32(0, \h0004), W32(\hFEB0, \h0002), W32(\hFEB0, \h0006),
     W32(0, \hE001), W32(0, \h0008)}
BarLoMasks == {Zero32, W32(\hFFFF, 0), W32(\hFFFF, \hFFF0), Ones32}
BarHiWords == {Zero32, W32(0, 1), Ones32, W32(\hFEB0, \h0004)}
BarHiMasks == {Zero32, Ones32}

BarIndexes == 0..7

InitBar ==
    /\ \E hdr \in HdrWords, lo \in BarLoWords, hi \in BarHiWords :
          cfg = MkCfg(hdr, FALSE, Zero32, Zero32, Zero32, Zero32, Zero32, lo, hi)
    /\ \E mlo \in BarLoMasks, mhi \in BarHiMasks : wmask = MkMask(mlo, mhi)
    /\ overflowChecks \in BOOLEAN
    /\ vbase = 0
    /\ OpIdle /\ CapIdle /\ EnIdle /\ BrwIdle /\ DrvIdle /\ ScanIdle

Bar(index) ==
    /\ Running
    /\ LET b == bar(Start(cfg), index)
       IN  /\ cfg' = b.s.cfg /\ log' = b.s.log /\ xl' = b.s.xl
           /\ res' = b.r
    /\ op' = "bar" /\ arg' = index /\ pre' = cfg
    /\ UNCHANGED <<brwVars, drvVars, wmask, overflowChecks, vbase, capVars, enVars, scanVars>>

NextBar == \E index \in BarIndexes : Bar(index)

SpecBar == InitBar /\ [][NextBar]_vars

\* --- properties of BAR queries ---

BarOffset(index) == 16 + 4 * index
Is64(w) == (w[1] \div 2) % 4 = 2

\* Bits 16-22 of the word at 0x0c
TypeField(c) == c[12][2] % 128

\* What a BAR register reads after all-ones is written to it: ones in the
\* bits it implements, its own value in the others
ReadBack(c, off) == OrW(wmask[off], AndW(c[off], NotW(wmask[off])))

IsMem(w) == w[1] % 2 = 0
Locatable(w) == (w[1] \div 2) % 4

\* The last operation was bar(arg) on an endpoint or a bridge with the index
\* in range for the type
BarInRange ==
    /\ op = "bar"
    /\ TypeField(pre) \in {0, 1}
    /\ arg < (IF TypeField(pre) = 0 THEN 6 ELSE 2)

\* The positions in the log of the writes
Writes == {i \in 1..Len(log) : log[i].k = "w"}

\* The positions in the log of the accesses to register r
AccessesTo(r) == {i \in 1..Len(log) : log[i].off = r}

\* The reads of register off in the last operation that came after a write of it
ProbedReads(off) ==
    {i \in 1..Len(log) : /\ log[i].k = "r" /\ log[i].off = off
                         /\ \E j \in 1..(i - 1) : log[j].k = "w" /\ log[j].off = off}

\* C1: after bar(index), however it ends (a Bar, no result, a fatal fault),
\* the register at 0x10 + 4*index and the register after it hold the values
\* they held before the call.
C1_ProbeRestore ==
    op = "bar" =>
        \A r \in {BarOffset(arg), BarOffset(arg) + 4} \cap BarRegs : cfg[r] = pre[r]

\* A 64-bit BAR decoded, both of whose registers read back something else
\* than their value while probed
C1_Witness ==
    /\ op = "bar" /\ res.kind = "bar" /\ Is64(pre[BarOffset(arg)])
    /\ \E i \in ProbedReads(BarOffset(arg)) : log[i].val # pre[BarOffset(arg)]
    /\ \E i \in ProbedReads(BarOffset(arg) + 4) : log[i].val # pre[BarOffset(arg) + 4]

SizeFormula(m) == AddW(NotW(ClearLow4(m)), OneW(m)).sum

\* C17: for a memory BAR with locatable field 0 that reads back a non-zero
\* s, bar() returns a Bar whose address is the register value with the low
\* 4 bits cleared, whose prefetchable flag is bit 3 of the register value and
\* whose size is (~(s with the low 4 bits cleared)) + 1 in 32 bits.
C17_Bar32Decode ==
    (BarInRange /\ IsMem(pre[BarOffset(arg)]) /\ Locatable(pre[BarOffset(arg)]) = 0
                /\ ReadBack(pre, BarOffset(arg)) # Zero32) =>
        /\ res.kind = "bar"
        /\ res.address = Ext64(ClearLow4(pre[BarOffset(arg)]))
        /\ res.prefetchable = (Bit(pre[BarOffset(arg)], 3) = 1)
        /\ res.size = Ext64(SizeFormula(ReadBack(pre, BarOffset(arg))))

\* C18: for a memory BAR with locatable field 2, bar() returns a Bar whose
\* address is (low register with the low 4 bits cleared) | (high register
\* << 32) and whose size is (~(m with the low 4 bits cleared)) + 1 in 64
\* bits, m being (read-back of the high register << 32) | (read-back of the
\* low register); the high register is read, written all-ones, read and
\* written its value again.
C18_Bar64Decode ==
    (BarInRange /\ IsMem(pre[BarOffset(arg)]) /\ Locatable(pre[BarOffset(arg)]) = 2) =>
        LET lo == BarOffset(arg)
            hi == BarOffset(arg) + 4
        IN  /\ res.kind = "bar"
            /\ res.address = W64(pre[hi], ClearLow4(pre[lo]))
            /\ res.size = SizeFormula(W64(ReadBack(pre, hi), ReadBack(pre, lo)))
            /\ \E i \in AccessesTo(hi) :
                  /\ AccessesTo(hi) = {i, i + 1, i + 2, i + 3}
                  /\ log[i] = [k |-> "r", off |-> hi, val |-> pre[hi]]
                  /\ log[i + 1] = [k |-> "w", off |-> hi, val |-> Ones32]
                  /\ log[i + 2] = [k |-> "r", off |-> hi, val |-> ReadBack(pre, hi)]
                  /\ log[i + 3] = [k |-> "w", off |-> hi, val |-> pre[hi]]

\* C19: for an endpoint or bridge with the index in range, bar() on an IO
\* BAR ends in a fatal fault and writes no register; on a memory BAR that
\* reads back non-zero with locatable field 1 or 3 it ends in a fatal fault;
\* and it returns no result only for a memory BAR that reads back zero.
C19_UnsupportedBarFatal ==
    BarInRange =>
        LET base == pre[BarOffset(arg)]
            s == ReadBack(pre, BarOffset(arg))
        IN  /\ ~IsMem(base) => res.kind = "panic" /\ Writes = {}
            /\ (IsMem(base) /\ s # Zero32 /\ Locatable(base) \in {1, 3}) =>
                  res.kind = "panic"
            /\ res.kind = "none" => IsMem(base) /\ s = Zero32

\* A memory BAR with locatable field 3, probed and restored, then the fault
C19_Witness ==
    /\ BarInRange /\ Locatable(pre[BarOffset(arg)]) = 3
    /\ IsMem(pre[BarOffset(arg)])
    /\ res = Panic("unimplemented: locatable")
    /\ Cardinality(Writes) = 2

\* The accesses to register r are: read its value, write all-ones, read the
\* size mask, write its value, the last three with no access between them
ProbedInOrder(r) ==
    \E i, j \in AccessesTo(r) :
        /\ i < j
        /\ AccessesTo(r) = {i, j, j + 1, j + 2}
        /\ log[i] = [k |-> "r", off |-> r, val |-> pre[r]]
        /\ log[j] = [k |-> "w", off |-> r, val |-> Ones32]
        /\ log[j + 1] = [k |-> "r", off |-> r, val |-> ReadBack(pre, r)]
        /\ log[j + 2] = [k |-> "w", off |-> r, val |-> pre[r]]

\* C20: in bar() on a memory BAR the accesses to the probed register are
\* read value, write all-ones, read size mask, write value, with no access
\* to another register from the write of all-ones to the restoring write;
\* when the high register of a 64-bit BAR is probed, the same holds of it,
\* and every access to the low register comes before the first write of the
\* high one.
C20_ProbeOrdering ==
    (BarInRange /\ IsMem(pre[BarOffset(arg)])) =>
        LET lo == BarOffset(arg)
            hi == BarOffset(arg) + 4
        IN  /\ ProbedInOrder(lo)
            /\ AccessesTo(hi) # {} =>
                  /\ ProbedInOrder(hi)
                  /\ \A i \in AccessesTo(lo), j \in AccessesTo(hi) :
                        log[j].k = "w" => i < j

\* A 64-bit BAR decoded in nine accesses: the type, then the two probes
C20_Witness ==
    /\ BarInRange /\ res.kind = "bar" /\ Is64(pre[BarOffset(arg)])
    /\ Len(log) = 9
    /\ AccessesTo(BarOffset(arg)) = {2, 3, 4, 5}
    /\ AccessesTo(BarOffset(arg) + 4) = {6, 7, 8, 9}
    /\ log[4].val # pre[BarOffset(arg)]

\* C22: every configuration write of bar() on an endpoint or bridge, index
\* in range, is to a BAR register of the device, 0x10-0x24 for an endpoint
\* and 0x10-0x14 for a bridge, the probe of the high register of a 64-bit
\* BAR included; bar() on a device of unknown type writes nothing.
C22_BarWritesOnlyBars ==
    op = "bar" =>
        /\ BarInRange =>
              \A i \in Writes :
                  /\ log[i].off >= 16
                  /\ log[i].off <= (IF TypeField(pre) = 0 THEN 36 ELSE 20)
        /\ TypeField(pre) \notin {0, 1} => Writes = {}

\* A double word is at least 16
AtLeast16(w) == w[1] >= 16 \/ \E i \in 2..Len(w) : w[i] # 0

\* C23: for a memory BAR with locatable field 0 or 2 that reads back
\* non-zero, the size computation of bar() does not overflow, and every Bar
\* returned has a size of at least 16.
C23_SizeWellDefined ==
    (BarInRange /\ IsMem(pre[BarOffset(arg)])
                /\ Locatable(pre[BarOffset(arg)]) \in {0, 2}
                /\ ReadBack(pre, BarOffset(arg)) # Zero32) =>
        /\ res # Panic("overflow")
        /\ res.kind = "bar" => AtLeast16(res.size)

----------------------------------------------------------------------------
(* MsiX views: PciDevice::get_cap_region_mut, then MsiX::enable on the view *)

\* Message control: table size 1 / 1024 / 8 / 3 entries; enable, function
\* mask and reserved bits in several settings
MsixCtls == {\h0000, \h03FF, \hC007, \h7C02}
\* BIR and table offset
MsixTables == {W32(0, \h2000), W32(\hFFFF, \hFFF8), W32(0, \h2001), W32(0, \h2005),
               W32(0, \h0007)}

InitView ==
    /\ \E ctl40 \in MsixCtls, ctl50 \in {\h0005, \h8005}, t40 \in MsixTables,
          id40 \in {\h01, \h11}, nx40 \in {0, \h50}, id50 \in {\h05, \h11} :
          cfg = MkCfg(Zero32, TRUE, W32(0, \h40),
                      CapWord(ctl40, id40, nx40), t40,
                      CapWord(ctl50, id50, 0), W32(0, \h1003),
                      W32(\hFEB0, 0), Zero32)
    /\ wmask = MkMask(W32(\hFFFF, 0), Zero32)
    /\ overflowChecks = FALSE
    /\ vbase = 0
    /\ OpIdle /\ CapIdle /\ EnIdle /\ BrwIdle /\ DrvIdle /\ ScanIdle

GetCapRegionMut(offset) ==
    /\ Running /\ view = 0
    /\ LET v == get_cap_region_mut(cfg, offset)
       IN  /\ res' = v
           /\ view' = IF v.kind = "msix" THEN v.offset ELSE 0
    /\ enCount' = 0 /\ cfg0' = cfg /\ cfgEn1' = cfg
    /\ op' = "get_cap_region_mut" /\ arg' = offset /\ pre' = cfg
    /\ log' = <<>> /\ xl' = <<>>
    /\ UNCHANGED <<brwVars, drvVars, hwVars, capVars, scanVars>>

MsiXEnable ==
    /\ Running /\ view # 0 /\ enCount < MaxEnable
    /\ LET e == enable(Start(cfg), view)
       IN  /\ cfg' = e.cfg /\ log' = e.log /\ xl' = e.xl
           /\ cfgEn1' = IF enCount = 0 THEN e.cfg ELSE cfgEn1
    /\ enCount' = enCount + 1
    /\ op' = "enable" /\ arg' = view /\ pre' = cfg /\ res' = Idle
    /\ UNCHANGED <<brwVars, drvVars, view, cfg0, wmask, overflowChecks, vbase, capVars, scanVars>>

\* The view goes out of scope
DropView ==
    /\ Running /\ view # 0
    /\ view' = 0
    /\ UNCHANGED <<brwVars, drvVars, enCount, cfg0, cfgEn1, hwVars, opVars, capVars, scanVars>>

NextView ==
    \/ \E offset \in {\h40, \h50} : GetCapRegionMut(offset)
    \/ MsiXEnable
    \/ DropView

SpecView == InitView /\ [][NextView]_vars

\* --- properties of MsiX::enable ---

\* The word w with bit 31 set and every other bit as it was
WithBit31(w) == W32(IF w[2] >= 2^15 THEN w[2] ELSE w[2] + 2^15, w[1])

\* C6: after enable() has been called once or twice on a view, enabled() is
\* true and table_size(), bir() and table_offset() return what they returned
\* before the first call; after the second call the configuration space is
\* what it was after the first.
C6_EnableIdempotent ==
    (view # 0 /\ enCount >= 1) =>
        /\ enabled(cfg, view)
        /\ table_size(cfg, view) = table_size(cfg0, view)
        /\ bir(cfg, view) = bir(cfg0, view)
        /\ table_offset(cfg, view) = table_offset(cfg0, view)
        /\ enCount >= 2 => cfg = cfgEn1

\* Two calls on a view that was not enabled, with a table size and a BIR
C6_Witness ==
    /\ view # 0 /\ enCount = 2
    /\ ~enabled(cfg0, view)
    /\ table_size(cfg0, view) = \h3FF
    /\ bir(cfg0, view) = 5

\* C7: enable() writes one configuration register, the word at the
\* capability offset, and writes it the word it read there with bit 31 set and
\* every other bit unchanged; the configuration space afterwards differs from
\* the one before in that word only.
C7_EnableReadModifyWrite ==
    op = "enable" =>
        /\ Cardinality(Writes) = 1
        /\ \A i \in Writes : log[i].off = arg /\ log[i].val = WithBit31(pre[arg])
        /\ cfg = [pre EXCEPT ![arg] = WithBit31(pre[arg])]

\* enable() on a word with bit 31 clear and function mask, reserved bits,
\* table size, next pointer and id set
C7_Witness ==
    /\ op = "enable"
    /\ pre[arg] = CapWord(\h7C02, \h11, \h50)
    /\ cfg[arg] = CapWord(\hFC02, \h11, \h50)

----------------------------------------------------------------------------
(* The interrupt table: PciDevice::get_msix_irq_table_mut *)

\* The chain: empty (status bit clear, or pointer zero), or from 0x40 on
MsixChains ==
    {l \in [st4 : BOOLEAN, ptr : {Zero32, W32(0, \h40)},
            w40 : {<<id, nx>> : id \in {\h01, \h11}, nx \in {0, \h40, \h50}},
            w50 : {<<id, nx>> : id \in {\h05, \h11}, nx \in {0, \h40}}] :
        (l.st4 /\ l.ptr # Zero32) \/ (l.w40 = <<\h11, 0>> /\ l.w50 = <<\h05, 0>>)}

\* BAR0/2/4 and BAR1/3/5, each a value and the writable bits
MsixBarLo == {<<W32(\hFEB0, \h0000), W32(\hFFFF, 0)>>, <<W32(\hFEB0, \h000C), W32(\hFFFF, 0)>>,
              <<W32(\hFFFF, \hFFF4), W32(\hFFFF, \hFFF0)>>}
MsixBarHi == {<<Zero32, Zero32>>, <<Ones32, Ones32>>, <<W32(\hFEB0, \h0004), W32(\hFFFF, 0)>>}
MsixHdrs == {Zero32, W32(\h0001, 0), W32(\h0002, 0)}

InitMsix ==
    /\ \E hdr \in MsixHdrs, l \in MsixChains, ctl \in MsixCtls, t40 \in MsixTables,
          lo \in MsixBarLo, hi \in MsixBarHi :
          /\ cfg = MkCfg(hdr, l.st4, l.ptr,
                         CapWord(ctl, l.w40[1], l.w40[2]), t40,
                         CapWord(\h0005, l.w50[1], l.w50[2]), W32(0, \h1000),
                         lo[1], hi[1])
          /\ wmask = MkMask(lo[2], hi[2])
    /\ overflowChecks \in BOOLEAN
    /\ vbase = \h8000
    /\ OpIdle /\ CapIdle /\ EnIdle /\ BrwIdle /\ DrvIdle /\ ScanIdle

GetMsixIrqTableMut ==
    /\ Running
    /\ LET t == get_msix_irq_table_mut(Start(cfg))
       IN  /\ cfg' = t.s.cfg /\ log' = t.s.log /\ xl' = t.s.xl
           /\ res' = t.r
    /\ op' = "table" /\ arg' = 0 /\ pre' = cfg
    /\ UNCHANGED <<brwVars, drvVars, wmask, overflowChecks, vbase, enVars, capVars, scanVars>>

NextMsix == GetMsixIrqTableMut

SpecMsix == InitMsix /\ [][NextMsix]_vars

\* --- properties of get_msix_irq_table_mut ---

\* The first capability with id 0x11 on the chain of c from off on, 0 when
\* there is none within fuel links
RECURSIVE FirstMsixFrom(_, _, _)
FirstMsixFrom(c, off, fuel) ==
    IF off = 0 \/ fuel = 0 THEN 0
    ELSE IF IdField(c[off]) = \h11 THEN off
    ELSE FirstMsixFrom(c, NextField(c[off]), fuel - 1)

FirstMsix(c) == FirstMsixFrom(c, ChainStartOf(c), Cardinality(CapOffs))

\* The base address of BAR b in c: the register with its low 4 bits cleared,
\* and for a 64-bit BAR the next register above it
BarBase(c, b) ==
    LET w == c[BarOffset(b)]
        low == W32(w[2], w[1] - (w[1] % 16))
    IN  IF Is64(w) THEN W64(c[BarOffset(b) + 4], low) ELSE W64(Zero32, low)

\* C8: a view returned by get_msix_irq_table_mut has N + 1 entries, N being
\* bits 0-9 of the message control (bits 16-25 of the word) of the first
\* MSI-X capability on the chain.
C8_EntryCount ==
    (op = "table" /\ res.kind = "view") =>
        /\ FirstMsix(pre) # 0
        /\ res.entries = (pre[FirstMsix(pre)][2] % 1024) + 1

\* A view of 3 entries, of a capability whose message control is 0x7C02: bits
\* 0-9 are 2, and bits 10-14 are set
C8_Witness ==
    /\ op = "table" /\ res.kind = "view"
    /\ res.entries = 3
    /\ pre[FirstMsix(pre)][2] = \h7C02

\* C9: when get_msix_irq_table_mut returns a view, the MSI-X enable bit is
\* set, and it was written before any BAR register was; the translator was
\* called once, with the base address of the BAR selected by the low 3 bits
\* of the word at capability offset + 4, plus that word with its low 3 bits
\* cleared (in 64 bits); and the view begins at the translator's result.
C9_TableLocation ==
    (op = "table" /\ res.kind = "view") =>
        LET m == FirstMsix(pre)
            tw == pre[m + 4]
            toff == <<tw[1] - (tw[1] % 8), tw[2], 0, 0>>
        IN  /\ cfg[m][2] >= 2^15
            /\ pre[m][2] < 2^15 =>
                  \E i \in Writes : /\ log[i].off = m
                                    /\ \A j \in Writes : log[j].off \in BarRegs => i < j
            /\ Len(xl) = 1
            /\ xl[1] = AddW(BarBase(pre, tw[1] % 8), toff).sum
            /\ res.addr = paddr_to_vaddr_conversion(xl[1])

\* A view in a 64-bit BAR with a non-zero upper half, at a non-zero table
\* offset, of a capability that was not enabled
C9_Witness ==
    /\ op = "table" /\ res.kind = "view"
    /\ pre[FirstMsix(pre)][2] < 2^15
    /\ Is64(pre[BarOffset(pre[FirstMsix(pre) + 4][1] % 8)])
    /\ xl[1][3] # 0
    /\ xl[1][1] = \h2000
    /\ res.addr # xl[1]

\* C10 as stated: when the chain holds no capability with id 0x11,
\* get_msix_irq_table_mut returns no result, writes no configuration register
\* and does not call the translator.
C10_AbsentIsNoResult ==
    (op = "table" /\ FirstMsix(pre) = 0) =>
        /\ res.kind = "none"
        /\ Writes = {}
        /\ xl = <<>>

\* C10 amended: when the chain holds no capability with id 0x11,
\* get_msix_irq_table_mut returns no view, writes no configuration register
\* and does not call the translator; it returns no result when the chain is
\* acyclic, and does not return when the chain is cyclic.
C10_AbsentNoResultIfAcyclic ==
    (op = "table" /\ FirstMsix(pre) = 0) =>
        /\ res.kind = IF AcyclicIn(pre) THEN "none" ELSE "hang"
        /\ Writes = {}
        /\ xl = <<>>

\* A chain of two capabilities, neither MSI-X, searched to its end
C10_Witness ==
    /\ op = "table" /\ FirstMsix(pre) = 0 /\ res.kind = "none"
    /\ ChainStartOf(pre) = \h40 /\ NextField(pre[\h40]) = \h50
    /\ NextField(pre[\h50]) = 0
    /\ Cardinality({i \in 1..Len(log) : log[i].k = "r" /\ log[i].off \in CapOffs}) = 2

\* The BAR index the table word of the first MSI-X capability selects
TableBir(c) == c[FirstMsix(c) + 4][1] % 8

\* The BAR the table word selects does not decode: the device type is
\* unknown, the index is out of range for the type, or the BAR is a memory
\* BAR that reads back zero
TableBarUndecodable(c) ==
    \/ TypeField(c) \notin {0, 1}
    \/ TableBir(c) >= (IF TypeField(c) = 0 THEN 6 ELSE 2)
    \/ /\ c[BarOffset(TableBir(c))][1] % 2 = 0
       /\ ReadBack(c, BarOffset(TableBir(c))) = Zero32

\* C11: when the chain holds an MSI-X capability and the BAR its table word
\* selects does not decode (BAR unused, device type unknown, index out of
\* range for the device type), get_msix_irq_table_mut ends in a fatal fault,
\* not in a view and not in no result, and the translator is not called.
C11_TableBarFailureFatal ==
    (op = "table" /\ FirstMsix(pre) # 0 /\ TableBarUndecodable(pre)) =>
        res.kind = "panic" /\ xl = <<>>

\* An endpoint whose table word selects BAR 5, which is unused: the
\* capability was enabled, the BAR probed, and the call ended in the fault
C11_Witness ==
    /\ op = "table" /\ FirstMsix(pre) # 0
    /\ TypeField(pre) = 0 /\ TableBir(pre) = 5
    /\ ReadBack(pre, BarOffset(5)) = Zero32
    /\ res = Panic("unwrap on None")
    /\ \E i \in Writes : log[i].off = BarOffset(5) /\ log[i].val = Ones32

----------------------------------------------------------------------------
(* Borrows of one PciDevice.  bar, enable_bus_mastering, get_cap_region_mut *)
(* and get_msix_irq_table_mut take &mut self; MsiX<'s> holds &'s mut        *)
(* PCIHeader and the table slice has the lifetime of the &mut self it was   *)
(* made from, so each keeps the device borrowed while it lives; MsiX::enable *)
(* takes &mut self of the view.  A call makes its configuration accesses    *)
(* one at a time and holds its receiver from its first access to its return. *)

\* &mut self of the device: nothing else holds the device or a part of it
Exclusive_view_by_value == running = {}

Exclusive == live = {} /\ running = {}

\* &mut self of a live view: the view is alive and not in use
ExclusiveView(b) == b \in live /\ b.kind = "MsiX" /\ running = {}

\* An endpoint with BAR0 a 32-bit memory BAR, or a 64-bit one with BAR1, and
\* an MSI-X capability at 0x40 whose table is in BAR0
InitBorrow ==
    /\ \E lo \in {W32(\hFEB0, 0), W32(\hFEB0, \h0004)}, ctl \in {\h0007, \h8007},
          cmd \in {\h0000, \h0004} :
          cfg = [MkCfg(Zero32, TRUE, W32(0, \h40), CapWord(ctl, \h11, 0),
                       W32(0, \h2000), Zero32, Zero32, lo, Zero32)
                   EXCEPT ![4] = W32(\h0010, cmd)]
    /\ wmask = MkMask(W32(\hFFFF, 0), Ones32)
    /\ overflowChecks = FALSE
    /\ vbase = 0
    /\ OpIdle /\ CapIdle /\ EnIdle /\ BrwIdle /\ DrvIdle /\ ScanIdle

\* A call begun: what it will return, the view it yields, the accesses it
\* makes
Call(name, via, t, yields) ==
    [id |-> nCalls + 1, op |-> name, via |-> via, todo |-> t.s.log,
     result |-> t.r, yields |-> yields]

Begin(c) ==
    /\ Running /\ nCalls < MaxCalls
    /\ running' = running \cup {c}
    /\ nCalls' = nCalls + 1
    /\ UNCHANGED <<live, trace, hwVars, opVars, capVars, enVars, scanVars, drvVars>>

BeginBar(index) ==
    /\ Exclusive
    /\ Begin(Call("bar", "device", bar(Start(cfg), index), "nothing"))

BeginEnableBusMastering ==
    /\ Exclusive
    /\ Begin(Call("enable_bus_mastering", "device",
                  [s |-> enable_bus_mastering(Start(cfg)), r |-> [kind |-> "ok"]],
                  "nothing"))

BeginGetCapRegionMut ==
    /\ Exclusive
    /\ Begin(Call("get_cap_region_mut", "device",
                  [s |-> Start(cfg), r |-> get_cap_region_mut(cfg, \h40)], "MsiX"))

BeginGetMsixIrqTableMut ==
    /\ Exclusive
    /\ LET t == get_msix_irq_table_mut(Start(cfg))
       IN  Begin(Call("get_msix_irq_table_mut", "device", t,
                      IF t.r.kind = "view" THEN "table" ELSE "nothing"))

BeginMsiXEnable(b) ==
    /\ ExclusiveView(b)
    /\ Begin(Call("MsiX::enable", "view",
                  [s |-> enable(Start(cfg), \h40), r |-> [kind |-> "ok"]], "nothing"))

\* The next configuration access of a call in progress
Step(c) ==
    /\ Running /\ c \in running /\ c.todo # <<>>
    /\ LET a == Head(c.todo)
       IN  /\ cfg' = IF a.k = "w" THEN HwWrite(cfg, a.off, a.val) ELSE cfg
           /\ trace' = Append(trace, [id |-> c.id, k |-> a.k, off |-> a.off])
    /\ running' = (running \ {c}) \cup {[c EXCEPT !.todo = Tail(@)]}
    /\ UNCHANGED <<live, nCalls, wmask, overflowChecks, vbase, opVars, capVars,
                   enVars, scanVars, drvVars>>

\* The call returns, and hands out the view it yields
Return(c) ==
    /\ Running /\ c \in running /\ c.todo = <<>>
    /\ running' = running \ {c}
    /\ live' = IF c.yields = "nothing" THEN live
               ELSE live \cup {[kind |-> c.yields, id |-> c.id]}
    /\ op' = c.op /\ res' = c.result
    /\ UNCHANGED <<trace, nCalls, arg, pre, log, xl, hwVars, capVars, enVars,
                   scanVars, drvVars>>

\* A view goes out of scope
Drop(b) ==
    /\ Running /\ b \in live /\ running = {}
    /\ live' = live \ {b}
    /\ UNCHANGED <<running, trace, nCalls, hwVars, opVars, capVars, enVars,
                   scanVars, drvVars>>

NextBorrow ==
    \/ \E index \in {0, 1} : BeginBar(index)
    \/ BeginEnableBusMastering
    \/ BeginGetCapRegionMut
    \/ BeginGetMsixIrqTableMut
    \/ \E b \in live : BeginMsiXEnable(b)
    \/ \E c \in running : Step(c)
    \/ \E c \in running : Return(c)
    \/ \E b \in live : Drop(b)

SpecBorrow == InitBorrow /\ [][NextBorrow]_vars

\* --- properties of borrows ---

\* C21: at most one MsiX view of the device is alive; while an MsiX view or
\* a table view is alive no call on the device (bar, enable_bus_mastering,
\* get_cap_region_mut, get_msix_irq_table_mut) is in progress; and the
\* configuration accesses of one call are not interleaved with an access of
\* another.
C21_SingleWriter ==
    /\ Cardinality({b \in live : b.kind = "MsiX"}) <= 1
    /\ Cardinality(live) <= 1
    /\ live # {} => \A c \in running : c.via = "view"
    /\ Cardinality(running) <= 1
    /\ \A j \in 2..Len(trace) :
          trace[j].id # trace[j - 1].id =>
              \A i \in 1..(j - 1) : trace[i].id # trace[j].id

\* An MsiX view alive and in use by enable, between its reads and its
\* write, after bar() probed and restored BAR0 in an earlier call
C21_Witness ==
    /\ \E b \in live : b.kind = "MsiX"
    /\ \E c \in running : c.op = "MsiX::enable" /\ Len(c.todo) = 1
    /\ \E i \in 1..Len(trace) : trace[i].id = 1 /\ trace[i].k = "w" /\ trace[i].off = 16
    /\ nCalls = 3

====
